---- MODULE Spec2Model ----
(***************************************************************************)
(* Model of the LAIK partitioners (src/src/partitioner.c) and of the dense *)
(* and sparse 1-D vector layouts (src/src/layout_compact_vector.c,         *)
(* src/src/layout_sparse_vector.c).                                        *)
(*                                                                         *)
(* assert() is modelled as in a debug build: a failed assertion ends the   *)
(* process; laik_panic never returns.  Doubles of the block partitioner    *)
(* are modelled as rationals scaled by 2 * cycles * totalTW so that they   *)
(* are integers; a comparison that rounding can decide has both outcomes.  *)
(*                                                                         *)
(* SpecBlock runs the block partitioner, SpecPart the all, master and copy *)
(* partitioners, Spec the operations of a layout, SpecData pack, unpack    *)
(* and copy between two mappings, SpecCollect the collection of a block    *)
(* partitioned container at the master.  SpecCycles sets the cycle count   *)
(* of a block partitioner, SpecMixed hands pack, unpack and copy a mapping *)
(* of the other layout variant, SpecSingletons calls laik_space_init and   *)
(* runs the built-in laik_All and laik_Master partitioners.                *)
(***************************************************************************)
EXTENDS Integers, Sequences, FiniteSets, TLC

\* ---------------------------------------------------------------- bounds
MaxSize == 3          \* largest extent of the partitioned dimension
MaxTasks == 2         \* largest group size
MaxCycles == 2        \* largest cycle count of a block partitioner
MaxWeight == 1        \* largest index / task weight
MaxIdx == 3           \* largest global index bound of a border range
MaxRanges == 2        \* most ranges in one task's border slice
MaxLen == 2           \* largest localLength given in the layout data
MaxExt == 2           \* largest numberOfExternalValues in the layout data
MaxCount == 1         \* largest element count of a layout's range
MaxUninit == 1        \* largest value read from an uninitialised field
MaxQueries == 3       \* most external offset queries on one layout
MaxBuf == 1           \* largest receive buffer, in elements
MaxCalls == 2         \* most calls of laik_space_init
MaxCycleArg == 11     \* largest argument of laik_set_cycle_count

NoFunc == <<>>        \* a null weight callback (getIdxW == 0 / getTaskW == 0)

\* ---------------------------------------------------------------- state
VARIABLES
    bpd,        \* Laik_BlockPartitionerData of the block partitioner
    ba,         \* slices appended to the border array by the last run
    prRun,      \* inputs and outcome of the last partitioner run
    lv,         \* the layout object (dense or sparse Laik_Layout_Vector)
    res,        \* outcome of the last layout operation
    hist,       \* history of the external slots used since the last switch
    mp,         \* two mappings of a container and a transfer between them
    pr,         \* the partitioner object (name and data)
    dc,         \* a container distributed over the tasks of a group
    glob,       \* the file-scope variables of partitioner.c and the heap
    status      \* "running", or how the process ended ("assert", "panic")

vars == <<bpd, ba, prRun, lv, res, hist, mp, pr, dc, glob, status>>

\* ------------------------------------------------------ helper operators
RECURSIVE SumTo(_, _)
\* sum of f[1..n] for a sequence f
SumTo(f, n) == IF n = 0 THEN 0 ELSE f[n] + SumTo(f, n - 1)

\* weight of index i (0-based); a null callback means weight 1
IdxW(d, i) == IF d.getIdxW = NoFunc THEN 1 ELSE d.getIdxW[i + 1]
\* weight of task t (0-based)
TaskW(d, t) == d.getTaskW[t + 1]

\* totalW: sum of the index weights over [0, size), or size
TotalW(d, size) ==
    IF d.getIdxW = NoFunc THEN size ELSE SumTo(d.getIdxW, size)

\* totalTW: sum of the task weights over the group, or count
TotalTW(d, count) ==
    IF d.getTaskW = NoFunc THEN count ELSE SumTo(d.getTaskW, count)


RECURSIVE Gcd(_, _)
\* greatest common divisor of two naturals
Gcd(a, b) == IF b = 0 THEN a ELSE Gcd(b, a % b)

RECURSIVE IsPow2(_)
IsPow2(n) == n = 1 \/ (n > 1 /\ n % 2 = 0 /\ IsPow2(n \div 2))

\* num/den (den > 0) is a dyadic rational: a double holds it exactly, and a
\* correctly rounded division num/den is then exact
IsDyadic(num, den) == num = 0 \/ IsPow2(den \div Gcd(num, den))

\* ------------------------------------------------------------------------
\* runBlockPartitioner.  A run is described by its context p:
\*   d: partitioner data, count: group size, size: s->size[pdim]
\* All doubles are held as integers scaled by Scale(p) = 2*cycles*totalTW.
\* ------------------------------------------------------------------------
RunCtx(d, count, size) ==
    [d |-> d, count |-> count, size |-> size,
     totalW |-> TotalW(d, size), totalTW |-> TotalTW(d, count)]

Scale(p) == 2 * p.d.cycles * p.totalTW

\* task weight used in taskW: getTaskW(task), or 1 when taskW = 1.0
TaskWOf(p, t) == IF p.d.getTaskW = NoFunc THEN 1 ELSE TaskW(p.d, t)

\* taskW is NaN (0.0 * count / 0.0) when all task weights are zero;
\* every comparison w >= perPart * taskW is then false
ThrIsNaN(p) == p.totalTW = 0

\* perPart * taskW for task t, scaled:
\*   (totalW / count / cycles) * (getTaskW(t) * count / totalTW)
Thr(p, t) == 2 * p.totalW * TaskWOf(p, t)

\* the double perPart * taskW is the exact product (no rounding happened)
ThrExact(p, t) ==
    \/ TaskWOf(p, t) = 0
    \/ /\ IsDyadic(p.totalW, p.count * p.d.cycles)
       /\ \/ p.d.getTaskW = NoFunc
          \/ IsDyadic(TaskWOf(p, t) * p.count, p.totalTW)

\* (task+1 == count) && (cycle+1 == cycles)
IsLast(p, st) == st.task + 1 = p.count /\ st.cycle + 1 = p.d.cycles

\* a carry that starts at 0 instead of -0.5
InitW_Zero(p) == 0

\* double w = -0.5, scaled
InitW(p) == 0 - p.d.cycles * p.totalTW

\* state of the loops at their start
LoopInit(p) ==
    [w |-> InitW(p), task |-> 0, cycle |-> 0, from |-> 0, out |-> <<>>,
     err |-> FALSE]

\* possible outcomes of the test (w >= perPart * taskW): decided by the exact
\* values unless they are equal and w or the threshold carries a rounding
\* error, where the rounded comparison can go either way
CrossOutcomes(p, st) ==
    IF ThrIsNaN(p) THEN {FALSE}
    ELSE IF st.w > Thr(p, st.task) THEN {TRUE}
    ELSE IF st.w < Thr(p, st.task) THEN {FALSE}
    ELSE IF ~st.err /\ ThrExact(p, st.task) THEN {TRUE}
    ELSE {TRUE, FALSE}

\* a loop body that gives the index i to the slice it emits
Advance_Incl(p, st, i) ==
    LET t1 == st.task + 1 IN
    [st EXCEPT
       !.out = Append(@, [task |-> st.task, from |-> st.from, to |-> i + 1]),
       !.task = IF t1 = p.count THEN 0 ELSE t1,
       !.cycle = IF t1 = p.count THEN @ + 1 ELSE @,
       !.from = i + 1]

\* body of the while loop after the break test: emit the slice
\* [from, i) if non-empty, go to the next task, start a new slice at i
Advance(p, st, i) ==
    LET t1 == st.task + 1 IN
    [st EXCEPT
       !.out = IF st.from < i
               THEN Append(@, [task |-> st.task, from |-> st.from, to |-> i])
               ELSE @,
       !.task = IF t1 = p.count THEN 0 ELSE t1,
       !.cycle = IF t1 = p.count THEN @ + 1 ELSE @,
       !.from = i]

RECURSIVE InnerWhile(_, _, _)
\* while (w >= perPart * taskW) { ... } at index i: the set of loop states
\* the loop can end in
InnerWhile(p, st, i) ==
    UNION { IF ~cross THEN {st}
            ELSE LET s1 == [st EXCEPT !.w = @ - Thr(p, st.task),
                                      !.err = @ \/ ~ThrExact(p, st.task)]
                 IN  IF IsLast(p, s1) THEN {s1}
                     ELSE InnerWhile(p, Advance(p, s1, i), i)
          : cross \in CrossOutcomes(p, st) }

RECURSIVE OuterFor(_, _, _)
\* for (i = 0; i < size; i++) { w += weight; while ...; if (last) break; }
OuterFor(p, st, i) ==
    IF i >= p.size THEN {st}
    ELSE UNION { IF IsLast(p, s) THEN {s} ELSE OuterFor(p, s, i + 1)
               : s \in InnerWhile(p,
                          [st EXCEPT !.w = @ + Scale(p) * IdxW(p.d, i)], i) }

\* the possible results of one run: the slices appended and whether the
\* closing assertion held
runBlockPartitioner(d, count, size) ==
    LET p == RunCtx(d, count, size) IN
    { IF IsLast(p, s)
      THEN [status |-> "done",
            slices |-> Append(s.out, [task |-> s.task, from |-> s.from,
                                      to |-> size])]
      ELSE [status |-> "assert", slices |-> s.out]
    : s \in OuterFor(p, LoopInit(p), 0) }

\* ------------------------------------------------------------ partitioner
WeightFuncs(n) == {NoFunc} \cup [1..n -> 0..MaxWeight]

\* laik_new_block_partitioner(pdim = 0, cycles, ifunc, tfunc, userData)
laik_new_block_partitioner(cycles, ifunc, tfunc) ==
    [pdim |-> 0, cycles |-> cycles, getIdxW |-> ifunc, getTaskW |-> tfunc]

NoRun == [status |-> "none", size |-> 0, count |-> 0]

\* the block partitioners laik_new_block_partitioner can create
BlockPartitioners ==
    { laik_new_block_partitioner(cycles, ifunc, tfunc) :
        cycles \in 1..MaxCycles, ifunc \in WeightFuncs(MaxSize),
        tfunc \in WeightFuncs(MaxTasks) }

\* the partitioner runs on a fresh border array over a 1-D space of
\* `size` indices and a group of `count` tasks
RunBlock ==
    /\ status = "running"
    /\ \E size \in 1..MaxSize, count \in 1..MaxTasks :
         \E r \in runBlockPartitioner(bpd, count, size) :
           /\ ba' = r.slices
           /\ prRun' = [status |-> r.status, size |-> size, count |-> count]
           /\ status' = IF r.status = "assert" THEN "assert" ELSE status
    /\ UNCHANGED <<glob, pr, dc, mp, bpd, lv, res, hist>>

NoLayout == [variant |-> "none"]
NoRes == [op |-> "none"]
\* sw: the layout was created by a transition of a bound container;
\* slots: the offsets given to the external values unpacked since then;
\* app: the number of external offset queries of the application since then
NoHist == [sw |-> FALSE, slots |-> <<>>, app |-> 0]
NoData == [variant |-> "none"]
NoPartitioner == [name |-> "none", data |-> 0]
NoContainer == [bound |-> "none"]
\* the container has one mapping with a buffer of capacity elements
NewBuffer(capacity) == [bound |-> "mapped", capacity |-> capacity]
\* space_init_done = false, laik_All = 0, laik_Master = 0 and no partitioner
\* on the heap; a partitioner pointer is the position of the object in
\* heap, 0 is the null pointer; calls counts the calls of laik_space_init
NoGlobals ==
    [space_init_done |-> FALSE, laik_All |-> 0, laik_Master |-> 0,
     heap |-> <<>>, calls |-> 0]

InitBlock ==
    /\ bpd \in BlockPartitioners
    /\ ba = <<>>
    /\ prRun = NoRun
    /\ lv = NoLayout
    /\ res = NoRes
    /\ hist = NoHist
    /\ mp = NoData
    /\ pr = NoPartitioner
    /\ dc = NoContainer
    /\ glob = NoGlobals
    /\ status = "running"

NextBlock == RunBlock

SpecBlock == InitBlock /\ [][NextBlock]_vars

\* ----- laik_set_cycle_count on a block partitioner
\* the arguments tried: -1, 0, the values of [1, 10] and values above 10
CycleArgs == (0 - 1)..MaxCycleArg

\* laik_set_cycle_count(pr, cycles) on the data d of the partitioner
laik_set_cycle_count(d, cycles) ==
    [d EXCEPT !.cycles = IF cycles < 0 \/ cycles > 10 THEN 1 ELSE cycles]

SetCycleCount ==
    /\ status = "running"
    /\ \E cycles \in CycleArgs :
         /\ bpd' = laik_set_cycle_count(bpd, cycles)
         /\ res' = [op |-> "set_cycle_count", cycles |-> cycles]
    /\ UNCHANGED <<glob, pr, dc, mp, ba, prRun, lv, hist, status>>

NextCycles == SetCycleCount

SpecCycles == InitBlock /\ [][NextCycles]_vars

\* ------------------------------------------------------------------------
\* properties of the block partitioner
\* ------------------------------------------------------------------------
SliceLen(s) == s.to - s.from

\* the weights the last run used are all 1 (no callback, or a callback
\* that returns 1 everywhere)
UnitWeights ==
    /\ \A i \in 0..(prRun.size - 1) : IdxW(bpd, i) = 1
    /\ bpd.getTaskW # NoFunc => \A t \in 0..(prRun.count - 1) : TaskW(bpd, t) = 1

\* the slices are consecutive, non-empty and cover [0, size)
ExactCover ==
    /\ Len(ba) >= 1
    /\ ba[1].from = 0
    /\ ba[Len(ba)].to = prRun.size
    /\ \A j \in 1..Len(ba) : ba[j].from < ba[j].to
    /\ \A j \in 1..(Len(ba) - 1) : ba[j + 1].from = ba[j].to

OnePerTask ==
    /\ Len(ba) = prRun.count
    /\ \A j \in 1..Len(ba) : ba[j].task = j - 1

Balanced ==
    \A a, b \in 1..Len(ba) : SliceLen(ba[a]) - SliceLen(ba[b]) <= 1

\* C2 as stated: with unit weights and cycles = 1, every run (any N >= 1,
\* k >= 1) emits exactly k slices, one per task, that cover [0, N) exactly
\* and differ in length by at most 1.
C2_AsStated ==
    (prRun.status = "done" /\ UnitWeights /\ bpd.cycles = 1)
        => (OnePerTask /\ ExactCover /\ Balanced)

\* C2 amended: with unit weights, cycles = 1 and N >= k the run completes
\* and emits exactly k slices, one per task, that cover [0, N) exactly and
\* differ in length by at most 1.
C2_BlockUnitCover ==
    (prRun.status # "none" /\ UnitWeights /\ bpd.cycles = 1
       /\ prRun.size >= prRun.count)
        => (prRun.status = "done" /\ OnePerTask /\ ExactCover /\ Balanced)

C2_Witness ==
    /\ prRun.status = "done" /\ UnitWeights /\ bpd.cycles = 1
    /\ prRun.size = 3 /\ prRun.count = 2
    /\ Len(ba) = 2

\* C3 as stated: for every cycles >= 1 and all non-negative weights, the
\* slices appended by a run are ascending, non-empty, abutting,
\* non-overlapping and cover [0, size).
C3_AsStated ==
    prRun.status # "none" => ExactCover

\* ------------------------------------------------------------------------
\* dense 1-D layout (layout_compact_vector.c)
\* ------------------------------------------------------------------------

\* laik_new_layout_vector: laik_init_layout sets count to the size of the
\* range; localLength is never written after malloc, its value u is whatever
\* the memory held
laik_new_layout_vector_dense(count, u) ==
    [variant |-> "dense", count |-> count, localLength |-> u]

\* section_vector: 0 for every index >= 0, -1 (not found) otherwise
section_vector_dense(l, g) == IF g >= 0 THEN 0 ELSE 0 - 1

\* offset_vector: the index itself; assert(off >= 0)
offset_vector_dense(l, g) ==
    IF g >= 0
    THEN [kind |-> "ok", value |-> g, ext |-> FALSE, lv |-> l]
    ELSE [kind |-> "assert", value |-> 0, ext |-> FALSE, lv |-> l]

\* reuse_vector: compares the localLength fields; on success the new
\* layout takes the old count
reuse_vector_dense(new, old) ==
    IF ~(new.localLength <= old.localLength)
    THEN [ret |-> FALSE, new |-> new]
    ELSE [ret |-> TRUE, new |-> [new EXCEPT !.count = old.count]]

\* ------------------------------------------------------------------------
\* sparse 1-D layout (layout_sparse_vector.c)
\* ------------------------------------------------------------------------

\* the globalToLocalMap pointer of a layout that has no map yet
NoMap == [size |-> 0, intervals |-> <<>>, lower_bound |-> 0, upper_bound |-> 0]

IsMap(m) == m.size > 0

\* laik_new_layout_vector: fields from the layout data; the cursor starts
\* at 0; globalToLocalMap is not set
laik_new_layout_vector_sparse(count, localLength, numberOfExternalValues) ==
    [variant |-> "sparse", count |-> count,
     localLength |-> localLength,
     numberOfExternalValues |-> numberOfExternalValues,
     currentExternalVallue |-> 0,
     globalToLocalMap |-> NoMap,
     allocatedRangeCount |-> count]

\* section_vector: lower_bound <= idx <= upper_bound
section_vector_sparse(l, g) ==
    IF g <= l.globalToLocalMap.upper_bound /\ g >= l.globalToLocalMap.lower_bound
    THEN 0 ELSE 0 - 1

RECURSIVE ScanIntervals(_, _, _, _)
\* the for loop of offset_vector from interval i (1-based) on, with
\* localOffset = off so far
ScanIntervals(m, g, i, off) ==
    IF i > m.size THEN [found |-> FALSE, off |-> off]
    ELSE IF g >= m.intervals[i].from /\ g < m.intervals[i].to
         THEN [found |-> TRUE, off |-> off + (g - m.intervals[i].from)]
    ELSE IF g < m.intervals[i].from
         THEN [found |-> FALSE, off |-> off]
    ELSE ScanIntervals(m, g, i + 1,
                       off + (m.intervals[i].to - m.intervals[i].from))

\* offset_vector without the wrap of the cursor at numberOfExternalValues
offset_vector_sparse_NoWrap(l, g) ==
    LET s == ScanIntervals(l.globalToLocalMap, g, 1, 0) IN
    IF s.found
    THEN IF s.off >= 0 /\ s.off < l.localLength
         THEN [kind |-> "ok", value |-> s.off, ext |-> FALSE, lv |-> l]
         ELSE [kind |-> "assert", value |-> 0, ext |-> FALSE, lv |-> l]
    ELSE IF l.numberOfExternalValues = 0
         THEN [kind |-> "panic", value |-> 0, ext |-> TRUE, lv |-> l]
    ELSE [kind |-> "ok", value |-> l.localLength + l.currentExternalVallue,
          ext |-> TRUE,
          lv |-> [l EXCEPT !.currentExternalVallue = @ + 1]]

\* offset_vector without the panic for a layout that has no external slots
offset_vector_sparse_NoPanic(l, g) ==
    LET s == ScanIntervals(l.globalToLocalMap, g, 1, 0) IN
    IF s.found
    THEN IF s.off >= 0 /\ s.off < l.localLength
         THEN [kind |-> "ok", value |-> s.off, ext |-> FALSE, lv |-> l]
         ELSE [kind |-> "assert", value |-> 0, ext |-> FALSE, lv |-> l]
    ELSE LET c == IF l.currentExternalVallue = l.numberOfExternalValues
                  THEN 0 ELSE l.currentExternalVallue
         IN  [kind |-> "ok", value |-> l.localLength + c, ext |-> TRUE,
              lv |-> [l EXCEPT !.currentExternalVallue = c + 1]]

\* offset_vector: the result and the layout after the call
offset_vector_sparse(l, g) ==
    LET s == ScanIntervals(l.globalToLocalMap, g, 1, 0) IN
    IF s.found
    THEN IF s.off >= 0 /\ s.off < l.localLength
         THEN [kind |-> "ok", value |-> s.off, ext |-> FALSE, lv |-> l]
         ELSE [kind |-> "assert", value |-> 0, ext |-> FALSE, lv |-> l]
    ELSE IF l.numberOfExternalValues = 0
         THEN [kind |-> "panic", value |-> 0, ext |-> TRUE, lv |-> l]
    ELSE LET c == IF l.currentExternalVallue = l.numberOfExternalValues
                  THEN 0 ELSE l.currentExternalVallue
         IN  [kind |-> "ok", value |-> l.localLength + c, ext |-> TRUE,
              lv |-> [l EXCEPT !.currentExternalVallue = c + 1]]

\* reuse_vector that leaves allocatedRangeCount of the new layout alone
reuse_vector_sparse_KeepArc(new, old) ==
    LET new_totalSize_fits ==
            new.allocatedRangeCount <= old.allocatedRangeCount
        vector_size_changed == new.localLength # old.localLength
    IN
    IF ~new_totalSize_fits \/ vector_size_changed
    THEN [ret |-> FALSE,
          new |-> IF ~vector_size_changed
                  THEN [new EXCEPT !.globalToLocalMap = old.globalToLocalMap]
                  ELSE new]
    ELSE [ret |-> TRUE,
          new |-> [new EXCEPT
                     !.globalToLocalMap =
                         IF new.count # new.localLength
                         THEN old.globalToLocalMap ELSE @]]

\* reuse_vector that takes the old interval map whenever reuse succeeds
reuse_vector_sparse_AlwaysMap(new, old) ==
    LET new_totalSize_fits ==
            new.allocatedRangeCount <= old.allocatedRangeCount
        vector_size_changed == new.localLength # old.localLength
    IN
    IF ~new_totalSize_fits \/ vector_size_changed
    THEN [ret |-> FALSE,
          new |-> IF ~vector_size_changed
                  THEN [new EXCEPT !.globalToLocalMap = old.globalToLocalMap]
                  ELSE new]
    ELSE [ret |-> TRUE,
          new |-> [new EXCEPT
                     !.globalToLocalMap = old.globalToLocalMap,
                     !.allocatedRangeCount = old.allocatedRangeCount]]

\* reuse_vector that does not look at the local lengths
reuse_vector_sparse_NoLen(new, old) ==
    IF ~(new.allocatedRangeCount <= old.allocatedRangeCount)
    THEN [ret |-> FALSE,
          new |-> IF new.localLength = old.localLength
                  THEN [new EXCEPT !.globalToLocalMap = old.globalToLocalMap]
                  ELSE new]
    ELSE [ret |-> TRUE,
          new |-> [new EXCEPT
                     !.globalToLocalMap =
                         IF new.count # new.localLength
                         THEN old.globalToLocalMap ELSE @,
                     !.allocatedRangeCount = old.allocatedRangeCount]]

\* reuse_vector: the return value and the new layout after the call
reuse_vector_sparse(new, old) ==
    LET new_totalSize_fits ==
            new.allocatedRangeCount <= old.allocatedRangeCount
        vector_size_changed == new.localLength # old.localLength
    IN
    IF ~new_totalSize_fits \/ vector_size_changed
    THEN [ret |-> FALSE,
          new |-> IF ~vector_size_changed
                  THEN [new EXCEPT !.globalToLocalMap = old.globalToLocalMap]
                  ELSE new]
    ELSE [ret |-> TRUE,
          new |-> [new EXCEPT
                     !.globalToLocalMap =
                         IF new.count # new.localLength
                         THEN old.globalToLocalMap ELSE @,
                     !.allocatedRangeCount = old.allocatedRangeCount]]

\* ----- calculate_mapping
Range(from, to) == [from |-> from, to |-> to]

RECURSIVE MappingWhile(_, _, _)
\* the inner while loop; list is the task's border slice (1-based), st the
\* loop variables: o, startRangeOfInterval, initialiseInterval, the
\* intervals written so far (chunksInitialised = their number) and the
\* index cr of current_range (0: not assigned yet)
MappingWhile(list, off, st) ==
    IF ~(st.o + 1 <= off) THEN st
    ELSE
      LET o == st.o + 1
          current_range == list[o]
          init == st.init \/ list[o - 1].to # current_range.from
          lastIter == ~(o + 1 <= off)
      IN
      IF lastIter /\ ~init
      THEN [st EXCEPT !.o = o, !.cr = o,
              !.intervals = Append(@, Range(st.start.from, current_range.to))]
      ELSE IF init
      THEN MappingWhile(list, off,
             [o |-> o, cr |-> o, init |-> FALSE, start |-> current_range,
              intervals |->
                 LET closed == Append(st.intervals,
                                      Range(st.start.from, list[o - 1].to))
                 IN  IF lastIter
                     THEN Append(closed, Range(current_range.from,
                                               current_range.to))
                     ELSE closed])
      ELSE MappingWhile(list, off, [st EXCEPT !.o = o, !.cr = o])

\* calculate_mapping(l, list, map_size, myid): kind "ok" and the layout
\* with its new map, or kind "assert".  All entries have mapping-no 0, so
\* the outer for loop runs its body once, for the first range.
calculate_mapping(l, list, map_size) ==
    IF map_size = 0 THEN [kind |-> "assert", lv |-> l]
    ELSE
      LET off == Len(list)
          st == IF off = 0
                THEN [o |-> 0, cr |-> 0, init |-> FALSE,
                      start |-> Range(0, 0), intervals |-> <<>>]
                ELSE MappingWhile(list, off,
                       [o |-> 1, cr |-> 0, init |-> FALSE,
                        start |-> list[1], intervals |-> <<>>])
      IN
      IF Len(st.intervals) # map_size THEN [kind |-> "assert", lv |-> l]
      ELSE [kind |-> "ok",
            lv |-> [l EXCEPT !.globalToLocalMap =
                      [size |-> map_size,
                       intervals |-> st.intervals,
                       lower_bound |-> list[1].from,
                       upper_bound |-> list[st.cr].to]]]

\* ----- variant dispatch through the layout's function table
section(l, g) ==
    IF l.variant = "dense" THEN section_vector_dense(l, g)
    ELSE section_vector_sparse(l, g)

offset(l, g) ==
    IF l.variant = "dense" THEN offset_vector_dense(l, g)
    ELSE offset_vector_sparse(l, g)

\* a layout on which offset and section can be called: a dense layout, or
\* a sparse one whose globalToLocalMap has been set
Ready(l) ==
    \/ l.variant = "dense"
    \/ l.variant = "sparse" /\ IsMap(l.globalToLocalMap)

RECURSIVE UnpackLoop(_, _, _, _, _)
\* the while loop of unpack_vector: elems = size / elemsize elements are
\* left in the buffer, idx is the cursor, acc the result so far (the
\* offsets written, in order)
UnpackLoop(l, idx, to, elems, acc) ==
    IF elems = 0 THEN [acc EXCEPT !.idx = idx, !.lv = l]
    ELSE
      LET r == offset(l, idx) IN
      IF r.kind # "ok" THEN [acc EXCEPT !.kind = r.kind, !.idx = idx, !.lv = l]
      ELSE
        LET acc1 == [acc EXCEPT !.count = @ + 1,
                                !.offs = Append(@, [off |-> r.value,
                                                    ext |-> r.ext])]
        IN  IF idx + 1 < to
            THEN UnpackLoop(r.lv, idx + 1, to, elems - 1, acc1)
            ELSE [acc1 EXCEPT !.idx = to, !.lv = r.lv]

\* unpack_vector(m, range, idx, buf, size) for range [from, to) with the
\* cursor at idx and room for elems elements in buf
unpack_vector(l, to, idx, elems) ==
    IF idx = to
    THEN [kind |-> "assert", count |-> 0, idx |-> idx, offs |-> <<>>, lv |-> l]
    ELSE UnpackLoop(l, idx, to, elems,
           [kind |-> "ok", count |-> 0, idx |-> idx, offs |-> <<>>, lv |-> l])

\* ------------------------------------------------------------------------
\* operations on the layout of one container
\* ------------------------------------------------------------------------
QueryIdx == (0 - 1)..(MaxIdx + 1)

\* the non-empty ranges [from, to) with bounds in 0..MaxIdx
Ranges == { r \in [from : 0..MaxIdx, to : 0..MaxIdx] : r.from < r.to }

\* the border slices of one task: sorted, non-overlapping, non-empty ranges
BorderLists ==
    UNION { { l \in [1..n -> Ranges] :
                \A j \in 1..(n - 1) : l[j].to <= l[j + 1].from }
          : n \in 0..MaxRanges }

\* the first layout of a container (dense)
NewDense ==
    /\ status = "running"
    /\ lv = NoLayout
    /\ \E count \in 0..MaxCount, u \in 0..MaxUninit :
         /\ lv' = laik_new_layout_vector_dense(count, u)
         /\ dc' = NewBuffer(count)
    /\ res' = [op |-> "new"]
    /\ hist' = NoHist
    /\ UNCHANGED <<glob, pr, mp, bpd, ba, prRun, status>>

\* the first layout of a container (sparse)
NewSparse ==
    /\ status = "running"
    /\ lv = NoLayout
    /\ \E count \in 0..MaxCount, ll \in 0..MaxLen, e \in 0..MaxExt :
         /\ lv' = laik_new_layout_vector_sparse(count, ll, e)
         /\ dc' = NewBuffer(count)
    /\ res' = [op |-> "new"]
    /\ hist' = NoHist
    /\ UNCHANGED <<glob, pr, mp, bpd, ba, prRun, status>>

\* calculate_mapping on the container's layout, for a layout that has just
\* been created and did not take its map from the old layout
CalculateMapping ==
    /\ status = "running"
    /\ lv.variant = "sparse"
    /\ res.op \in {"new", "reuse"}
    /\ ~IsMap(lv.globalToLocalMap)
    /\ \E list \in BorderLists, map_size \in 0..MaxRanges :
         LET r == calculate_mapping(lv, list, map_size) IN
         /\ lv' = r.lv
         /\ res' = [op |-> "calculate_mapping", kind |-> r.kind,
                    list |-> list, map_size |-> map_size]
         /\ status' = IF r.kind = "ok" THEN status ELSE r.kind
    /\ UNCHANGED <<glob, pr, dc, mp, bpd, ba, prRun, hist>>

\* the application asks for the offset of a global index
Offset ==
    /\ status = "running"
    /\ Ready(lv)
    /\ \E g \in QueryIdx :
         LET r == offset(lv, g) IN
         /\ r.ext /\ r.kind = "ok" => Len(hist.slots) + hist.app < MaxQueries
         /\ lv' = r.lv
         /\ res' = [op |-> "offset", kind |-> r.kind, g |-> g,
                    value |-> r.value, ext |-> r.ext]
         /\ hist' = IF r.ext /\ r.kind = "ok"
                    THEN [hist EXCEPT !.app = @ + 1] ELSE hist
         /\ status' = IF r.kind = "ok" THEN status ELSE r.kind
    /\ UNCHANGED <<glob, pr, dc, mp, bpd, ba, prRun>>

\* a transition of a container with a dense layout: a new layout is
\* created for the target partitioning, reuse_vector(new, old) decides
\* about the buffer and the new layout becomes the container's layout.
\* Offset and Unpack change nothing that reuse_vector reads (only the
\* external cursor of the old layout), so the transition is taken from the
\* states before them.  oldReq is the count the old layout was created
\* for (reuse_vector overwrites its count field).
SwitchDense ==
    /\ status = "running"
    /\ lv.variant = "dense"
    /\ res.op \in {"new", "reuse", "calculate_mapping"}
    /\ \E count \in 0..MaxCount, u \in 0..MaxUninit :
         LET new == laik_new_layout_vector_dense(count, u)
             r == reuse_vector_dense(new, lv)
         IN  /\ lv' = r.new
             /\ dc' = IF r.ret THEN dc ELSE NewBuffer(count)
             /\ res' = [op |-> "reuse", ret |-> r.ret, new |-> new,
                        old |-> lv,
                        oldReq |-> IF res.op = "reuse" THEN res.new.count
                                   ELSE lv.count]
    /\ hist' = [NoHist EXCEPT !.sw = TRUE]
    /\ UNCHANGED <<glob, pr, mp, bpd, ba, prRun, status>>

\* the same for a container with a sparse layout; same: the new layout
\* was created from the layout data the old one was created from (a
\* transition to the partitioning the container already has)
SwitchSparse ==
    /\ status = "running"
    /\ lv.variant = "sparse"
    /\ res.op \in {"new", "reuse", "calculate_mapping"}
    /\ \E count \in 0..MaxCount, ll \in 0..MaxLen, e \in 0..MaxExt :
         LET new == laik_new_layout_vector_sparse(count, ll, e)
             r == reuse_vector_sparse(new, lv)
         IN  /\ lv' = r.new
             /\ dc' = IF r.ret THEN dc ELSE NewBuffer(count)
             /\ res' = [op |-> "reuse", ret |-> r.ret,
                        newArc |-> new.allocatedRangeCount,
                        oldArc |-> lv.allocatedRangeCount,
                        oldLen |-> lv.localLength,
                        oldExt |-> lv.numberOfExternalValues,
                        same |-> /\ new.count = lv.count
                                 /\ new.localLength = lv.localLength
                                 /\ new.numberOfExternalValues
                                        = lv.numberOfExternalValues]
    /\ hist' = [NoHist EXCEPT !.sw = TRUE]
    /\ UNCHANGED <<glob, pr, mp, bpd, ba, prRun, status>>

\* received values are unpacked into the container's mapping; this happens
\* inside a transition of a bound container, before the application sees
\* the new layout
Unpack ==
    /\ status = "running"
    /\ Ready(lv)
    /\ hist.sw
    /\ res.op \in {"reuse", "calculate_mapping", "unpack"}
    /\ \E rg \in Ranges, elems \in 1..MaxBuf :
         LET r == unpack_vector(lv, rg.to, rg.from, elems)
             extOffs == SelectSeq(r.offs, LAMBDA x : x.ext)
         IN  /\ Len(hist.slots) + Len(extOffs) <= MaxQueries
             /\ lv' = r.lv
             /\ res' = [op |-> "unpack", kind |-> r.kind, count |-> r.count,
                        idx |-> r.idx]
             /\ hist' = [hist EXCEPT !.slots =
                           @ \o [j \in 1..Len(extOffs) |-> extOffs[j].off]]
             /\ status' = IF r.kind = "ok" THEN status ELSE r.kind
    /\ UNCHANGED <<glob, pr, dc, mp, bpd, ba, prRun>>

Init ==
    /\ bpd = laik_new_block_partitioner(1, NoFunc, NoFunc)
    /\ ba = <<>>
    /\ prRun = NoRun
    /\ lv = NoLayout
    /\ res = NoRes
    /\ hist = NoHist
    /\ mp = NoData
    /\ pr = NoPartitioner
    /\ dc = NoContainer
    /\ glob = NoGlobals
    /\ status = "running"

Next ==
    \/ NewDense
    \/ NewSparse
    \/ CalculateMapping
    \/ Offset
    \/ SwitchDense
    \/ SwitchSparse
    \/ Unpack

Spec == Init /\ [][Next]_vars

\* ------------------------------------------------------------------------
\* pack, unpack and copy on the mappings of a container
\* ------------------------------------------------------------------------

\* a successor function that steps over one index
next_idx_Skip(to, idx) == [more |-> idx + 2 < to, idx |-> idx + 2]

\* next_idx: the successor of idx and whether it is still inside [.., to)
next_idx(to, idx) == [more |-> idx + 1 < to, idx |-> idx + 1]

\* laik_range_within_range(range, req)
Within(range, req) == req.from <= range.from /\ range.to <= req.to

RECURSIVE PackLoop(_, _, _, _, _)
\* the while loop of pack_vector: room for elems = size / elemsize
\* elements is left in the buffer, idx is the cursor, acc the result so far
\* (the offsets read, in order)
PackLoop(l, idx, to, elems, acc) ==
    IF elems = 0 THEN [acc EXCEPT !.idx = idx, !.lv = l]
    ELSE
      LET r == offset(l, idx) IN
      IF r.kind # "ok" THEN [acc EXCEPT !.kind = r.kind, !.idx = idx, !.lv = l]
      ELSE
        LET acc1 == [acc EXCEPT !.count = @ + 1,
                                !.offs = Append(@, [off |-> r.value,
                                                    ext |-> r.ext])]
            n == next_idx(to, idx)
        IN  IF n.more
            THEN PackLoop(r.lv, n.idx, to, elems - 1, acc1)
            ELSE [acc1 EXCEPT !.idx = to, !.lv = r.lv]

\* pack_vector(m, range, idx, buf, size) on a mapping with layout l and
\* required range req, with room for elems elements in buf
pack_vector(l, req, range, idx, elems) ==
    IF idx = range.to
    THEN [kind |-> "ok", count |-> 0, idx |-> idx, offs |-> <<>>, lv |-> l]
    ELSE IF ~Within(range, req)
    THEN [kind |-> "assert", count |-> 0, idx |-> idx, offs |-> <<>>,
          lv |-> l]
    ELSE PackLoop(l, idx, range.to, elems,
           [kind |-> "ok", count |-> 0, idx |-> idx, offs |-> <<>>, lv |-> l])

RECURSIVE CopyLoop(_, _, _, _, _)
\* the do-while loop of copy_vector: the body runs before next_idx is
\* asked; acc.moves are the (from offset, to offset) pairs copied so far
CopyLoop(lf, lt, idx, to, acc) ==
    LET rf == offset(lf, idx) IN
    IF rf.kind # "ok" THEN [acc EXCEPT !.kind = rf.kind, !.from = lf, !.to = lt]
    ELSE
      LET rt == offset(lt, idx) IN
      IF rt.kind # "ok"
      THEN [acc EXCEPT !.kind = rt.kind, !.from = rf.lv, !.to = lt]
      ELSE
        LET acc1 == [acc EXCEPT !.count = @ + 1,
                                !.moves = Append(@, [from |-> rf.value,
                                                     to |-> rt.value])]
            n == next_idx(to, idx)
        IN  IF n.more
            THEN CopyLoop(rf.lv, rt.lv, n.idx, to, acc1)
            ELSE [acc1 EXCEPT !.from = rf.lv, !.to = rt.lv]

\* laik_is_layout_vector(l) of the file that implements the layout variant
\* own: l->offset is that file's offset_vector
laik_is_layout_vector(own, l) == l.variant = own

\* copy_vector(range, from, to) of the layout variant own on the layouts of
\* the two mappings; both must be layouts of that variant, and the
\* elements are copied before the closing assert(count == size(range))
copy_vector(own, range, lf, lt) ==
    IF ~laik_is_layout_vector(own, lf) \/ ~laik_is_layout_vector(own, lt)
    THEN [kind |-> "assert", count |-> 0, moves |-> <<>>,
          from |-> lf, to |-> lt]
    ELSE
    LET r == CopyLoop(lf, lt, range.from, range.to,
                      [kind |-> "ok", count |-> 0, moves |-> <<>>,
                       from |-> lf, to |-> lt])
    IN  IF r.kind = "ok" /\ r.count # range.to - range.from
        THEN [r EXCEPT !.kind = "assert"]
        ELSE r

\* ----- mappings: a layout, the buffer it addresses and the required range
\* elements are tagged by the buffer and slot they were in at the start
SrcTag(o) == 100 + o
DstTag(o) == 200 + o

\* number of element slots of the buffer of a mapping with layout l
Capacity(l) ==
    IF l.variant = "dense" THEN l.count
    ELSE l.localLength + l.numberOfExternalValues

\* the required range of a mapping: the layout's range for the dense
\* layout; the whole index space for the sparse one
RequiredRange(l) ==
    IF l.variant = "dense" THEN [from |-> 0, to |-> l.count]
    ELSE [from |-> 0, to |-> MaxIdx]

SrcMapping(l) ==
    [layout |-> l, req |-> RequiredRange(l),
     buf |-> [o \in 0..(Capacity(l) - 1) |-> SrcTag(o)]]

DstMapping(l) ==
    [layout |-> l, req |-> RequiredRange(l),
     buf |-> [o \in 0..(Capacity(l) - 1) |-> DstTag(o)]]

\* ranges [from, to), the empty ones included
DataRanges == { r \in [from : 0..MaxIdx, to : 0..MaxIdx] : r.from <= r.to }

\* the layouts a mapping can have
DenseLayouts ==
    { laik_new_layout_vector_dense(count, u) :
        count \in 0..MaxCount, u \in 0..MaxUninit }

SparseLayouts ==
    { r.lv : r \in { c \in { calculate_mapping(
                                laik_new_layout_vector_sparse(ll + e, ll, e),
                                list, map_size) :
                               ll \in 0..MaxLen, e \in 0..MaxExt,
                               list \in BorderLists,
                               map_size \in 1..MaxRanges } :
                       c.kind = "ok" } }

\* a transfer of range from the mapping src to the mapping dst by the
\* pack, unpack and copy functions of one layout variant: idx is the
\* cursor of pack, uidx the cursor of unpack, wire the elements packed so
\* far, done the number of them that have been unpacked
NewTransfer(ls, ld, range) ==
    [variant |-> ls.variant, src |-> SrcMapping(ls), dst |-> DstMapping(ld),
     range |-> range, idx |-> range.from, uidx |-> range.from,
     wire |-> <<>>, done |-> 0]

\* the two mappings have layouts of one variant; two sparse layouts have
\* their own interval maps and the same layout data
Transfers ==
    { NewTransfer(ls, ld, rg) :
        ls \in DenseLayouts, ld \in DenseLayouts, rg \in DataRanges }
    \cup
    { NewTransfer(p[1], p[2], rg) :
        p \in { q \in SparseLayouts \X SparseLayouts :
                  /\ q[1].localLength = q[2].localLength
                  /\ q[1].numberOfExternalValues
                        = q[2].numberOfExternalValues },
        rg \in DataRanges }

\* the elements at the offsets offs of buffer buf
ReadAll(buf, offs) == [j \in 1..Len(offs) |-> buf[offs[j].off]]

RECURSIVE WriteAll(_, _, _, _)
\* buf after vals[j] has been written to offs[j].off for j = k, k+1, ...
WriteAll(buf, offs, vals, k) ==
    IF k > Len(offs) THEN buf
    ELSE WriteAll([buf EXCEPT ![offs[k].off] = vals[k]], offs, vals, k + 1)

\* all offsets lie inside a buffer of cap slots
InBuffer(offs, cap) == \A j \in 1..Len(offs) : offs[j].off < cap

\* pack_vector on the source mapping, with a buffer for elems elements.
\* The caller passes a range whose elements lie inside the buffers.
Pack ==
    /\ status = "running"
    /\ mp.variant # "none"
    /\ mp.done = Len(mp.wire)
    /\ res.op \in {"none", "pack", "unpack"}
    /\ \E elems \in 0..MaxBuf :
         LET r == pack_vector(mp.src.layout, mp.src.req, mp.range, mp.idx,
                              elems)
         IN  /\ InBuffer(r.offs, Capacity(mp.src.layout))
             /\ mp' = [mp EXCEPT !.src.layout = r.lv, !.idx = r.idx,
                                 !.wire = @ \o ReadAll(mp.src.buf, r.offs)]
             /\ res' = [op |-> "pack", kind |-> r.kind, count |-> r.count,
                        idx |-> mp.idx, elems |-> elems]
             /\ status' = IF r.kind = "ok" THEN status ELSE r.kind
    /\ UNCHANGED <<glob, pr, dc, bpd, ba, prRun, lv, hist>>

\* unpack_vector on the destination mapping, with the elements of the last
\* pack in the buffer
UnpackData ==
    /\ status = "running"
    /\ mp.variant # "none"
    /\ mp.done < Len(mp.wire)
    /\ LET elems == Len(mp.wire) - mp.done
           r == unpack_vector(mp.dst.layout, mp.range.to, mp.uidx, elems)
           vals == SubSeq(mp.wire, mp.done + 1, mp.done + r.count)
       IN  /\ InBuffer(r.offs, Capacity(mp.dst.layout))
           /\ mp' = [mp EXCEPT !.dst.layout = r.lv, !.uidx = r.idx,
                               !.dst.buf = WriteAll(@, r.offs, vals, 1),
                               !.done = @ + r.count]
           /\ res' = [op |-> "unpack", kind |-> r.kind, count |-> r.count,
                      idx |-> r.idx]
           /\ status' = IF r.kind = "ok" THEN status ELSE r.kind
    /\ UNCHANGED <<glob, pr, dc, bpd, ba, prRun, lv, hist>>

\* copy_vector from the source mapping to the destination mapping
Copy ==
    /\ status = "running"
    /\ mp.variant # "none"
    /\ res.op = "none"
    /\ LET r == copy_vector(mp.variant, mp.range, mp.src.layout,
                           mp.dst.layout)
           reads == [j \in 1..Len(r.moves) |-> [off |-> r.moves[j].from]]
           writes == [j \in 1..Len(r.moves) |-> [off |-> r.moves[j].to]]
       IN  /\ InBuffer(reads, Capacity(mp.src.layout))
           /\ InBuffer(writes, Capacity(mp.dst.layout))
           /\ mp' = [mp EXCEPT !.src.layout = r.from, !.dst.layout = r.to,
                               !.dst.buf = WriteAll(@, writes,
                                               ReadAll(mp.src.buf, reads), 1)]
           /\ res' = [op |-> "copy", kind |-> r.kind, count |-> r.count,
                      written |-> { writes[j].off : j \in 1..Len(writes) }]
           /\ status' = IF r.kind = "ok" THEN status ELSE r.kind
    /\ UNCHANGED <<glob, pr, dc, bpd, ba, prRun, lv, hist>>

InitData ==
    /\ bpd = laik_new_block_partitioner(1, NoFunc, NoFunc)
    /\ ba = <<>>
    /\ prRun = NoRun
    /\ lv = NoLayout
    /\ res = NoRes
    /\ hist = NoHist
    /\ mp \in Transfers
    /\ pr = NoPartitioner
    /\ dc = NoContainer
    /\ glob = NoGlobals
    /\ status = "running"

NextData ==
    \/ Pack
    \/ UnpackData
    \/ Copy

SpecData == InitData /\ [][NextData]_vars

\* transfers by the functions of one layout variant between two mappings
\* with buffers of the same capacity, of which at least one has a layout
\* of the other variant
MixedTransfers ==
    { [NewTransfer(p[1], p[2], rg) EXCEPT !.variant = own] :
        own \in {"dense", "sparse"},
        p \in { q \in (DenseLayouts \cup SparseLayouts)
                        \X (DenseLayouts \cup SparseLayouts) :
                  /\ Capacity(q[1]) = Capacity(q[2])
                  /\ q[1].variant = q[2].variant => q[1] = q[2] },
        rg \in DataRanges }
    \ Transfers

InitMixed ==
    /\ bpd = laik_new_block_partitioner(1, NoFunc, NoFunc)
    /\ ba = <<>>
    /\ prRun = NoRun
    /\ lv = NoLayout
    /\ res = NoRes
    /\ hist = NoHist
    /\ mp \in MixedTransfers
    /\ pr = NoPartitioner
    /\ dc = NoContainer
    /\ glob = NoGlobals
    /\ status = "running"

SpecMixed == InitMixed /\ [][NextData]_vars

\* ------------------------------------------------------------------------
\* the all, master and copy partitioners (partitioner.c)
\* ------------------------------------------------------------------------

\* laik_set_index(&i, a, b, c)
laik_set_index(a, b, c) == <<a, b, c>>

\* index spaces of 1 or 2 dimensions; the extent of an unused dimension is 0
Spaces ==
    { [dims |-> 1, size |-> <<a, 0, 0>>] : a \in 1..MaxSize }
    \cup { [dims |-> 2, size |-> <<a, b, 0>>] : a, b \in 1..MaxSize }

\* task groups; two groups are the same group iff they are equal
Groups == [id : {"world", "sub"}, size : 1..MaxTasks]

\* the slices of a block partitioner run, as slices of the space
BlockSlices(space, slices) ==
    [j \in 1..Len(slices) |->
        [task |-> slices[j].task,
         from |-> laik_set_index(slices[j].from, 0, 0),
         to |-> [space.size EXCEPT ![1] = slices[j].to]]]

\* runAllPartitioner: the full space for every task of the group
runAllPartitioner(old, space, group) ==
    old \o [t \in 1..group.size |->
              [task |-> t - 1,
               from |-> laik_set_index(0, 0, 0),
               to |-> laik_set_index(space.size[1], space.size[2],
                                     space.size[3])]]

\* the full space for the last task of the group instead of task 0
runMasterPartitioner_Last(old, space, group) ==
    Append(old, [task |-> group.size - 1,
                 from |-> laik_set_index(0, 0, 0),
                 to |-> laik_set_index(space.size[1], space.size[2],
                                       space.size[3])])

\* runMasterPartitioner: the full space for task 0 only
runMasterPartitioner(old, space, group) ==
    Append(old, [task |-> 0,
                 from |-> laik_set_index(0, 0, 0),
                 to |-> laik_set_index(space.size[1], space.size[2],
                                       space.size[3])])

NoBase == [group |-> "none"]

\* laik_new_copy_partitioner(base, fromDim, toDim)
laik_new_copy_partitioner(base, fromDim, toDim) ==
    [name |-> "copy",
     data |-> [base |-> base, fromDim |-> fromDim, toDim |-> toDim]]

laik_new_all_partitioner == [name |-> "all", data |-> 0]
laik_new_master_partitioner == [name |-> "master", data |-> 0]

\* the assertions of runCopyPartitioner on its data and on the base
CopyAsserts(data, space, group) ==
    /\ data.base # NoBase
    /\ data.base.bordersValid
    /\ data.base.group = group
    /\ data.fromDim >= 0 /\ data.fromDim < data.base.space.dims
    /\ data.toDim >= 0 /\ data.toDim < space.dims

\* runCopyPartitioner that takes the borders of dimension toDim of the base
runCopyPartitioner_ToDim(data, old, space, group) ==
    IF ~CopyAsserts(data, space, group)
    THEN [status |-> "assert", slices |-> old]
    ELSE LET b == data.base.borders IN
         [status |-> "done",
          slices |-> old \o
             [i \in 1..Len(b) |->
                [task |-> b[i].task,
                 from |-> [laik_set_index(0, 0, 0)
                             EXCEPT ![data.toDim + 1] =
                                        b[i].from[data.toDim + 1]],
                 to |-> [space.size
                             EXCEPT ![data.toDim + 1] =
                                        b[i].to[data.toDim + 1]]]]]

\* runCopyPartitioner that appends before it looks at the base
runCopyPartitioner_Late(data, old, space, group) ==
    IF ~CopyAsserts(data, space, group)
    THEN [status |-> "assert",
          slices |-> Append(old, [task |-> 0,
                                  from |-> laik_set_index(0, 0, 0),
                                  to |-> space.size])]
    ELSE LET b == data.base.borders IN
         [status |-> "done",
          slices |-> old \o
             [i \in 1..Len(b) |->
                [task |-> b[i].task,
                 from |-> [laik_set_index(0, 0, 0)
                             EXCEPT ![data.toDim + 1] =
                                        b[i].from[data.fromDim + 1]],
                 to |-> [space.size
                             EXCEPT ![data.toDim + 1] =
                                        b[i].to[data.fromDim + 1]]]]]

\* runCopyPartitioner: one slice per slice of the base, with the borders
\* of dimension fromDim of the base in dimension toDim
runCopyPartitioner(data, old, space, group) ==
    IF ~CopyAsserts(data, space, group)
    THEN [status |-> "assert", slices |-> old]
    ELSE LET b == data.base.borders IN
         [status |-> "done",
          slices |-> old \o
             [i \in 1..Len(b) |->
                [task |-> b[i].task,
                 from |-> [laik_set_index(0, 0, 0)
                             EXCEPT ![data.toDim + 1] =
                                        b[i].from[data.fromDim + 1]],
                 to |-> [space.size
                             EXCEPT ![data.toDim + 1] =
                                        b[i].to[data.fromDim + 1]]]]]

\* the border arrays a valid base partitioning over space and group can
\* have: those of the all, the master and the unit-weight block partitioner
BaseBorders(space, group) ==
    { runAllPartitioner(<<>>, space, group),
      runMasterPartitioner(<<>>, space, group) }
    \cup
    { BlockSlices(space, r.slices) :
        r \in { q \in runBlockPartitioner(
                        laik_new_block_partitioner(1, NoFunc, NoFunc),
                        group.size, space.size[1]) : q.status = "done" } }

\* base partitionings: none, one whose borders are not valid, or a valid one
Bases ==
    {NoBase}
    \cup { [group |-> g, space |-> s, bordersValid |-> FALSE,
            borders |-> <<>>] : g \in Groups, s \in Spaces }
    \cup UNION { { [group |-> g, space |-> s, bordersValid |-> TRUE,
                    borders |-> b] : b \in BaseBorders(s, g) }
                 : g \in Groups, s \in Spaces }

Partitioners ==
    { laik_new_all_partitioner, laik_new_master_partitioner }
    \cup { laik_new_copy_partitioner(base, fromDim, toDim) :
             base \in Bases, fromDim \in 0..1, toDim \in 0..1 }

\* pr->run(pr, ba, 0) on a fresh border array over a space and a group
RunPartitioner ==
    /\ status = "running"
    /\ prRun.status = "none"
    /\ \E space \in Spaces, count \in 1..MaxTasks :
         LET group == [id |-> "world", size |-> count]
             r == IF pr.name = "all"
                  THEN [status |-> "done",
                        slices |-> runAllPartitioner(ba, space, group)]
                  ELSE IF pr.name = "master"
                  THEN [status |-> "done",
                        slices |-> runMasterPartitioner(ba, space, group)]
                  ELSE runCopyPartitioner(pr.data, ba, space, group)
         IN  /\ ba' = r.slices
             /\ prRun' = [status |-> r.status, size |-> space.size[1],
                          count |-> count, space |-> space, group |-> group]
             /\ status' = IF r.status = "assert" THEN "assert" ELSE status
    /\ UNCHANGED <<glob, bpd, lv, res, hist, mp, pr, dc>>

InitPart ==
    /\ bpd = laik_new_block_partitioner(1, NoFunc, NoFunc)
    /\ ba = <<>>
    /\ prRun = NoRun
    /\ lv = NoLayout
    /\ res = NoRes
    /\ hist = NoHist
    /\ mp = NoData
    /\ pr \in Partitioners
    /\ dc = NoContainer
    /\ glob = NoGlobals
    /\ status = "running"

NextPart == RunPartitioner

SpecPart == InitPart /\ [][NextPart]_vars

\* ------------------------------------------------------------------------
\* the built-in partitioner singletons laik_All and laik_Master
\* ------------------------------------------------------------------------

\* laik_new_partitioner: the object is allocated on the heap
laik_new_partitioner(g, p) == [g EXCEPT !.heap = Append(@, p)]

\* laik_space_init without the early return
laik_space_init_NoReturn(g) ==
    LET g1 == laik_new_partitioner(g, laik_new_all_partitioner)
        g2 == laik_new_partitioner(g1, laik_new_master_partitioner)
    IN  [g2 EXCEPT !.laik_All = Len(g1.heap),
                   !.laik_Master = Len(g2.heap),
                   !.space_init_done = TRUE]

\* laik_space_init
laik_space_init(g) ==
    IF g.space_init_done THEN g
    ELSE LET g1 == laik_new_partitioner(g, laik_new_all_partitioner)
             g2 == laik_new_partitioner(g1, laik_new_master_partitioner)
         IN  [g2 EXCEPT !.laik_All = Len(g1.heap),
                        !.laik_Master = Len(g2.heap),
                        !.space_init_done = TRUE]

\* a call of laik_space_init
SpaceInit ==
    /\ status = "running"
    /\ glob.calls < MaxCalls
    /\ glob' = [laik_space_init(glob) EXCEPT !.calls = @ + 1]
    /\ UNCHANGED <<bpd, ba, prRun, lv, res, hist, mp, pr, dc, status>>

\* laik_All or laik_Master is run on a fresh border array over a space and
\* a group; a null pointer ends the process
RunBuiltin ==
    /\ status = "running"
    /\ prRun.status = "none"
    /\ \E ptr \in {glob.laik_All, glob.laik_Master} :
         IF ptr = 0
         THEN /\ status' = "crash"
              /\ UNCHANGED <<ba, prRun, pr>>
         ELSE \E space \in Spaces, group \in Groups :
                LET p == glob.heap[ptr]
                IN  /\ pr' = p
                    /\ ba' = IF p.name = "all"
                             THEN runAllPartitioner(ba, space, group)
                             ELSE runMasterPartitioner(ba, space, group)
                    /\ prRun' = [status |-> "done", size |-> space.size[1],
                                 count |-> group.size, space |-> space,
                                 group |-> group]
                    /\ status' = status
    /\ UNCHANGED <<bpd, lv, res, hist, mp, dc, glob>>

InitSingletons ==
    /\ bpd = laik_new_block_partitioner(1, NoFunc, NoFunc)
    /\ ba = <<>>
    /\ prRun = NoRun
    /\ lv = NoLayout
    /\ res = NoRes
    /\ hist = NoHist
    /\ mp = NoData
    /\ pr = NoPartitioner
    /\ dc = NoContainer
    /\ glob = NoGlobals
    /\ status = "running"

NextSingletons == SpaceInit \/ RunBuiltin

SpecSingletons == InitSingletons /\ [][NextSingletons]_vars

\* ------------------------------------------------------------------------
\* a container under the block partitioning, switched to the master
\* partitioning with CopyIn (examples/markov.c)
\* ------------------------------------------------------------------------

\* the indices of a 1-D space a task owns under a border array
OwnedBy(borders, t) ==
    { i \in 0..MaxSize :
        \E j \in 1..Len(borders) :
            /\ borders[j].task = t
            /\ borders[j].from[1] <= i /\ i < borders[j].to[1] }

\* the tasks that own index i under a border array
OwnersOf(borders, i, count) == { t \in 0..count - 1 : i \in OwnedBy(borders, t) }

\* a value never written
Uninit == 0 - 1

\* the container gets the block partitioning over a 1-D space and a group,
\* and every worker writes its id into each element of its mapping
WriteBlocks ==
    /\ status = "running"
    /\ dc = NoContainer
    /\ \E size \in 1..MaxSize, count \in 1..MaxTasks :
         \E r \in runBlockPartitioner(bpd, count, size) :
           LET space == [dims |-> 1, size |-> laik_set_index(size, 0, 0)]
               b == BlockSlices(space, r.slices)
           IN  /\ ba' = r.slices
               /\ prRun' = [status |-> r.status, size |-> size,
                            count |-> count]
               /\ status' = IF r.status = "assert" THEN "assert" ELSE status
               /\ dc' = IF r.status = "assert" THEN dc
                        ELSE [bound |-> "block", space |-> space,
                              group |-> [id |-> "world", size |-> count],
                              borders |-> b,
                              vals |-> [t \in 0..count - 1 |->
                                          [i \in OwnedBy(b, t) |-> t]]]
    /\ UNCHANGED <<glob, pr, mp, bpd, lv, res, hist>>

RECURSIVE Sources(_, _, _)
\* the ways to name, for each index i, i+1, ... of the space, the previous
\* owner a new owner receives the element from (task 0 stands in for an
\* index nobody owned)
Sources(borders, count, i) ==
    IF i > MaxSize THEN {<<>>}
    ELSE LET o == OwnersOf(borders, i, count)
         IN  { <<t>> \o rest :
                 t \in (IF o = {} THEN {0} ELSE o),
                 rest \in Sources(borders, count, i + 1) }

\* laik_switchto(d, pMaster, LAIK_DF_CopyIn): the master partitioner runs
\* on a fresh border array and every element a task owns afterwards gets
\* the value one of its previous owners holds
SwitchToMaster ==
    /\ status = "running"
    /\ dc # NoContainer
    /\ dc.bound = "block"
    /\ pr.name = "master"
    /\ LET b == runMasterPartitioner(<<>>, dc.space, dc.group)
           k == dc.group.size
       IN  \E from \in Sources(dc.borders, k, 0) :
             dc' = [bound |-> "master", space |-> dc.space,
                    group |-> dc.group, borders |-> b,
                    old |-> dc.borders,
                    vals |-> [t \in 0..k - 1 |->
                                [i \in OwnedBy(b, t) |->
                                   IF OwnersOf(dc.borders, i, k) = {}
                                   THEN Uninit
                                   ELSE dc.vals[from[i + 1]][i]]]]
    /\ UNCHANGED <<glob, pr, mp, bpd, ba, prRun, lv, res, hist, status>>

InitCollect ==
    /\ bpd \in BlockPartitioners
    /\ ba = <<>>
    /\ prRun = NoRun
    /\ lv = NoLayout
    /\ res = NoRes
    /\ hist = NoHist
    /\ mp = NoData
    /\ pr = laik_new_master_partitioner
    /\ dc = NoContainer
    /\ glob = NoGlobals
    /\ status = "running"

NextCollect == WriteBlocks \/ SwitchToMaster

SpecCollect == InitCollect /\ [][NextCollect]_vars

\* ------------------------------------------------------------------------
\* properties of the layouts
\* ------------------------------------------------------------------------
IntervalLen(iv) == iv.to - iv.from

\* g lies in one of the intervals of the map
Owned(m, g) ==
    \E j \in 1..Len(m.intervals) :
        m.intervals[j].from <= g /\ g < m.intervals[j].to

RECURSIVE PrefixLen(_, _)
\* sum of the sizes of the first j intervals
PrefixLen(m, j) ==
    IF j = 0 THEN 0 ELSE IntervalLen(m.intervals[j]) + PrefixLen(m, j - 1)

SumSizes(m) == PrefixLen(m, Len(m.intervals))

\* the offset the offset rule gives an owned index
OwnedOffset(m, g) ==
    LET j == CHOOSE k \in 1..Len(m.intervals) :
                 m.intervals[k].from <= g /\ g < m.intervals[k].to
    IN  PrefixLen(m, j - 1) + (g - m.intervals[j].from)

\* number of maximal intervals of a sorted border slice
CoalescedCount(list) ==
    IF Len(list) = 0 THEN 0
    ELSE 1 + Cardinality({ j \in 1..(Len(list) - 1) :
                             list[j].to # list[j + 1].from })

InList(list, g) ==
    \E j \in 1..Len(list) : list[j].from <= g /\ g < list[j].to

\* m holds exactly the maximal intervals of the border slice, in order
MapMatches(m, list) ==
    /\ m.size = CoalescedCount(list)
    /\ Len(m.intervals) = m.size
    /\ \A j \in 1..Len(m.intervals) : m.intervals[j].from < m.intervals[j].to
    /\ \A j \in 1..(Len(m.intervals) - 1) :
           m.intervals[j].to < m.intervals[j + 1].from
    /\ \A g \in 0..MaxIdx : Owned(m, g) <=> InList(list, g)
    /\ m.lower_bound = m.intervals[1].from
    /\ m.upper_bound = m.intervals[Len(m.intervals)].to

\* number of external offset queries on the layout since it was created
ExtQueries == Len(hist.slots) + hist.app

\* C1 as stated: for the dense and the sparse layout, every index g with
\* section(L, g) = 0 has an offset in [0, L.count).
C1_AsStated ==
    \A g \in QueryIdx :
        (Ready(lv) /\ section(lv, g) = 0)
            => /\ offset(lv, g).kind = "ok"
               /\ offset(lv, g).value >= 0
               /\ offset(lv, g).value < lv.count

\* the layout of the example: border slice [0,2), [2,4), [5,7), local
\* length 6, two external slots
ExampleLayout ==
    calculate_mapping(laik_new_layout_vector_sparse(8, 6, 2),
                      <<Range(0, 2), Range(2, 4), Range(5, 7)>>, 2).lv

\* three successive queries of non-local indices on the example layout
\* return 6, 7, 6
C4_Example ==
    LET q1 == offset(ExampleLayout, 4)
        q2 == offset(q1.lv, 9)
        q3 == offset(q2.lv, 4)
    IN  <<q1.value, q2.value, q3.value>> = <<6, 7, 6>>

\* C4: with E > 0 external slots the n-th (n = 0, 1, ...) offset query for
\* a non-local index since the layout was created returns
\* localLength + (n mod E), and the external cursor stays in [0, E].
C4_ExternalCursor ==
    /\ C4_Example
    /\ lv.variant = "sparse" =>
         /\ lv.currentExternalVallue >= 0
         /\ lv.currentExternalVallue <= lv.numberOfExternalValues
         /\ \A j \in 1..Len(hist.slots) :
                hist.slots[j] =
                    lv.localLength + ((j - 1) % lv.numberOfExternalValues)
         /\ (res.op = "offset" /\ res.kind = "ok" /\ res.ext)
              => res.value = lv.localLength
                               + ((ExtQueries - 1) % lv.numberOfExternalValues)

C4_Witness ==
    /\ lv.variant = "sparse" /\ lv.numberOfExternalValues = 2
    /\ res.op = "offset" /\ res.kind = "ok" /\ res.ext
    /\ ExtQueries = 3
    /\ res.value = lv.localLength

\* C5 as stated: in a transition that receives r external values
\* (1 <= r <= E) the cursor is 0 at the start, the j-th received value goes
\* to slot localLength + j, and afterwards the j-th external offset query of
\* the application returns that slot.
C5_AsStated ==
    (lv.variant = "sparse" /\ hist.sw) =>
        /\ res.op = "reuse" => lv.currentExternalVallue = 0
        /\ Len(hist.slots) <= lv.numberOfExternalValues =>
             /\ \A j \in 1..Len(hist.slots) :
                    hist.slots[j] = lv.localLength + (j - 1)
             /\ (res.op = "offset" /\ res.kind = "ok" /\ res.ext
                   /\ hist.app <= Len(hist.slots))
                  => res.value = hist.slots[hist.app]

\* C6 as stated: for every sorted, non-overlapping border slice of n >= 1
\* ranges with map_size = the number m of maximal intervals,
\* calculate_mapping stores exactly those m intervals in order and sets
\* lower_bound and upper_bound to the first from and the last to.
C6_AsStated ==
    (res.op = "calculate_mapping" /\ Len(res.list) >= 1
        /\ res.map_size = CoalescedCount(res.list))
      => (res.kind = "ok" /\ MapMatches(lv.globalToLocalMap, res.list))

\* C7 as stated: the offset of a global index g in interval I_j is the sum
\* of the sizes of I_0..I_{j-1} plus g - I_j.from.
C7_AsStated ==
    (res.op = "offset" /\ lv.variant = "sparse"
        /\ Owned(lv.globalToLocalMap, res.g))
      => (res.kind = "ok"
            /\ res.value = OwnedOffset(lv.globalToLocalMap, res.g))

\* C8 as stated: after calculate_mapping, localLength equals the sum of the
\* sizes of the stored intervals.
C8_AsStated ==
    (res.op = "calculate_mapping" /\ res.kind = "ok")
      => lv.localLength = SumSizes(lv.globalToLocalMap)

\* C9: with E = 0 an offset query for an index outside all owned intervals
\* ends in a panic; no offset is returned and the layout (the external
\* cursor included) is not changed.
C9_NoExternalPanics ==
    [][ (res'.op = "offset" /\ lv.variant = "sparse"
           /\ lv.numberOfExternalValues = 0
           /\ ~Owned(lv.globalToLocalMap, res'.g))
        => (res'.kind = "panic" /\ status' = "panic" /\ lv' = lv) ]_vars

\* a query for an index in a gap between two intervals has panicked
C9_Witness ==
    /\ status = "panic" /\ res.op = "offset" /\ res.kind = "panic"
    /\ lv.variant = "sparse" /\ lv.numberOfExternalValues = 0
    /\ \E j \in 1..(Len(lv.globalToLocalMap.intervals) - 1) :
          /\ lv.globalToLocalMap.intervals[j].to <= res.g
          /\ res.g < lv.globalToLocalMap.intervals[j + 1].from

\* C10 as stated: dense reuse(new, old) returns true iff
\* new.count <= old.count; on true the new count becomes old.count, on false
\* the new layout is unchanged.
C10_AsStated ==
    (lv.variant = "dense" /\ res.op = "reuse") =>
        /\ res.ret <=> res.new.count <= res.old.count
        /\ res.ret => lv.count = res.old.count
        /\ ~res.ret => lv = res.new

\* C11 as stated: in a sequence of dense transitions a switch to a count
\* not above the count the current layout was created for reuses the
\* buffer, and a switch to a larger count does not, even when the layout
\* kept a larger count from an earlier reuse (1000 -> 400 reuses,
\* 400 -> 1000 does not).
C11_AsStated ==
    (lv.variant = "dense" /\ res.op = "reuse") =>
        /\ res.new.count <= res.oldReq => res.ret
        /\ res.new.count > res.oldReq => ~res.ret

\* C12: sparse reuse(new, old) returns true iff
\* new.allocatedRangeCount <= old.allocatedRangeCount and
\* new.localLength = old.localLength, whatever the numbers of external
\* values of the two layouts are.
C12_SparseReuse ==
    (lv.variant = "sparse" /\ res.op = "reuse") =>
        (res.ret <=> (res.newArc <= res.oldArc
                        /\ lv.localLength = res.oldLen))

\* a reuse that succeeded between layouts with different numbers of
\* external values, the new layout needing fewer ranges than the old one
C12_Witness ==
    /\ lv.variant = "sparse" /\ res.op = "reuse" /\ res.ret
    /\ lv.numberOfExternalValues # res.oldExt
    /\ res.newArc < res.oldArc

\* the last transition went to the partitioning the container already had
SamePartitioning ==
    /\ res.op = "reuse"
    /\ \/ lv.variant = "dense" /\ res.new.count = res.oldReq
       \/ lv.variant = "sparse" /\ res.same

\* C13 as stated: a transition of a bound container (dense or sparse
\* layout) to the partitioning it already has finds reuse true, so that the
\* buffer is kept as it is and nothing is allocated or freed.
C13_AsStated ==
    SamePartitioning => res.ret

\* ------------------------------------------------------------------------
\* properties of pack, unpack and copy
\* ------------------------------------------------------------------------
Min(a, b) == IF a <= b THEN a ELSE b

\* the element the source mapping holds for index i: the dense layout keeps
\* it in slot i, the sparse layout in the slot the offset rule gives
HasElem(m, i) ==
    \/ m.layout.variant = "dense"
    \/ m.layout.variant = "sparse" /\ Owned(m.layout.globalToLocalMap, i)

SrcElem(m, i) ==
    IF m.layout.variant = "dense" THEN SrcTag(i)
    ELSE SrcTag(OwnedOffset(m.layout.globalToLocalMap, i))

RECURSIVE ReadRange(_, _, _, _)
\* the elements a reader finds for the indices idx, idx + 1, ..., to - 1 of
\* a mapping with layout l and buffer buf, asking the layout for each
\* offset in turn; 0 - 1 stands for an index that cannot be read
ReadRange(l, buf, idx, to) ==
    IF idx >= to THEN <<>>
    ELSE LET r == offset(l, idx) IN
         IF r.kind = "ok" /\ r.value \in DOMAIN buf
         THEN <<buf[r.value]>> \o ReadRange(r.lv, buf, idx + 1, to)
         ELSE <<0 - 1>> \o ReadRange(l, buf, idx + 1, to)

\* the whole range has been packed and unpacked
TransferDone ==
    /\ mp.variant # "none" /\ status = "running"
    /\ res.op \in {"pack", "unpack"}
    /\ mp.idx = mp.range.to /\ mp.uidx = mp.range.to
    /\ mp.done = Len(mp.wire)

\* C15 as stated: after a range has been packed from a source mapping and
\* unpacked into a destination mapping of the same layout variant, in
\* chunks of any size, the destination holds at every index of the range
\* the element that was packed for it, and the source buffer is unchanged.
C15_AsStated ==
    TransferDone =>
        /\ ReadRange(mp.dst.layout, mp.dst.buf, mp.range.from, mp.range.to)
              = mp.wire
        /\ mp.src.buf = SrcMapping(mp.src.layout).buf

\* C16 as stated, for dense mappings: copy_vector copies size(range)
\* elements, index i of the range going from the source slot of i to the
\* destination slot of i, writes no other destination slot, and its
\* closing check passes; for an empty range nothing is copied.
C16_AsStated ==
    (res.op = "copy" /\ mp.variant = "dense") =>
        /\ res.kind = "ok"
        /\ res.count = mp.range.to - mp.range.from
        /\ \A o \in DOMAIN mp.dst.buf :
              mp.dst.buf[o] = IF mp.range.from <= o /\ o < mp.range.to
                              THEN SrcTag(o) ELSE DstTag(o)

\* C17: after every worker wrote its id into its block and the container
\* was switched to the master partitioning with CopyIn, worker 0 owns all
\* N elements, element g holds the id of the block owner of g, and every
\* other worker owns zero elements.
C17_MasterCollect ==
    (dc # NoContainer /\ dc.bound = "master") =>
        /\ DOMAIN dc.vals[0] = 0..prRun.size - 1
        /\ \A g \in DOMAIN dc.vals[0] :
              /\ OwnersOf(dc.old, g, prRun.count) # {}
              /\ dc.vals[0][g] \in OwnersOf(dc.old, g, prRun.count)
        /\ \A t \in 1..prRun.count - 1 : DOMAIN dc.vals[t] = {}

\* two workers wrote into a container of three elements and worker 0
\* holds both ids after the switch
C17_Witness ==
    /\ dc # NoContainer /\ dc.bound = "master"
    /\ prRun.size = 3 /\ prRun.count = 2
    /\ {dc.vals[0][g] : g \in DOMAIN dc.vals[0]} = {0, 1}

\* the copy partitioner ran to completion
CopyDone == pr.name = "copy" /\ prRun.status = "done"

\* C18: the copy partitioner appends exactly one slice per slice of the
\* base border array, in the base's order and with the same task id; each
\* slice spans the full target space in every dimension except toDim,
\* where its [from, to) is the base slice's [from, to) in fromDim.
C18_CopySlices ==
    CopyDone =>
        LET b == pr.data.base.borders
            fd == pr.data.fromDim + 1
            td == pr.data.toDim + 1
        IN  /\ Len(ba) = Len(b)
            /\ \A i \in 1..Len(b) :
                  /\ ba[i].task = b[i].task
                  /\ ba[i].from[td] = b[i].from[fd]
                  /\ ba[i].to[td] = b[i].to[fd]
                  /\ \A d \in 1..3 :
                        d # td => /\ ba[i].from[d] = 0
                                  /\ ba[i].to[d] = prRun.space.size[d]

\* a 2-D target gets the two blocks of a 1-D base in its second dimension
C18_Witness ==
    /\ CopyDone
    /\ prRun.space.dims = 2 /\ pr.data.base.space.dims = 1
    /\ pr.data.fromDim = 0 /\ pr.data.toDim = 1
    /\ Len(ba) = 2
    /\ ba[1].task = 0 /\ ba[2].task = 1
    /\ ba[1].to[2] = ba[2].from[2]
    /\ ba[1].to[1] = prRun.space.size[1]

\* the base the copy partitioner is given cannot be used for the group
BadBase(group) ==
    \/ pr.data.base = NoBase
    \/ ~pr.data.base.bordersValid
    \/ pr.data.base.group # group

\* C19: a run of the copy partitioner with no base, with a base whose
\* borders are not valid or with a base of another group fails before any
\* slice is appended: the target border array is left unchanged.
C19_CopyPrecondition ==
    [][(pr.name = "copy" /\ prRun'.status # "none" /\ BadBase(prRun'.group))
          => (prRun'.status = "assert" /\ status' = "assert" /\ ba' = ba)]_vars

\* a run with a valid base of another group has failed
C19_Witness ==
    /\ pr.name = "copy"
    /\ prRun.status = "assert"
    /\ pr.data.base # NoBase
    /\ pr.data.base.bordersValid
    /\ pr.data.base.group # prRun.group
    /\ Len(pr.data.base.borders) = 2
    /\ ba = <<>>

\* the slice lies within the space
InSpace(slc, space) ==
    \A d \in 1..3 :
        0 <= slc.from[d] /\ slc.from[d] <= slc.to[d]
                         /\ slc.to[d] <= space.size[d]

\* C20: every slice appended by the all, master or copy partitioner lies
\* within the target space, for the copy partitioner also when the base
\* space's extent along fromDim differs from the target's along toDim.
C20_AsStated ==
    prRun.status = "done" => \A i \in 1..Len(ba) : InSpace(ba[i], prRun.space)

\* ------------------------------------------------------------------------
\* further properties of the block partitioner
\* ------------------------------------------------------------------------

\* the task weight callback gives only task 0 of the group a weight
OnlyMasterWeight ==
    /\ bpd.getTaskW # NoFunc
    /\ prRun.count >= 2
    /\ TaskW(bpd, 0) > 0
    /\ \A t \in 1..(prRun.count - 1) : TaskW(bpd, t) = 0

\* C21 as stated: when only task 0 has a non-zero task weight (k >= 2,
\* N >= 1), the block partitioner completes and gives the whole range
\* [0, N) to task 0; the other tasks get no indices.
C21_AsStated ==
    (prRun.status # "none" /\ OnlyMasterWeight) =>
        /\ prRun.status = "done"
        /\ ExactCover
        /\ \A j \in 1..Len(ba) : ba[j].task = 0

\* ------------------------------------------------------------------------
\* pack, unpack and copy across layout variants
\* ------------------------------------------------------------------------

\* the last operation was given a mapping whose layout is of another
\* variant than the operation's own
Mismatched ==
    /\ mp.variant # "none"
    /\ \/ res.op = "pack" /\ mp.src.layout.variant # mp.variant
       \/ res.op = "unpack" /\ mp.dst.layout.variant # mp.variant
       \/ res.op = "copy" /\ (mp.src.layout.variant # mp.variant
                                \/ mp.dst.layout.variant # mp.variant)

\* C22 as stated: pack, unpack and copy invoked with a mapping whose layout
\* is of another variant than the operation's own fail and transfer no
\* element.
C22_AsStated ==
    Mismatched => (res.kind = "assert" /\ res.count = 0)

\* ------------------------------------------------------------------------
\* properties of the built-in singletons
\* ------------------------------------------------------------------------

\* C23: initialisation is idempotent: after any number (>= 1) of calls of
\* laik_space_init, laik_All and laik_Master are the two partitioners the
\* first call created, and a later call creates no partitioner and changes
\* no state.
C23_InitIdempotent ==
    [][/\ glob'.calls >= 1 =>
             /\ glob'.space_init_done
             /\ glob'.laik_All = 1 /\ glob'.laik_Master = 2
             /\ glob'.heap = <<laik_new_all_partitioner,
                               laik_new_master_partitioner>>
       /\ glob.calls >= 1 => glob' = [glob EXCEPT !.calls = glob'.calls]]_vars

\* laik_space_init has been called twice
C23_Witness ==
    /\ glob.calls = 2
    /\ glob.space_init_done
    /\ Len(glob.heap) = 2

\* ------------------------------------------------------------------------
\* the index at which the block partitioner ends a slice
\* ------------------------------------------------------------------------

RECURSIVE CumW(_, _)
\* sum of the index weights of [0, i], scaled like the carry
CumW(p, i) == IF i < 0 THEN 0 ELSE Scale(p) * IdxW(p.d, i) + CumW(p, i - 1)

RECURSIVE ThrSum(_, _)
\* sum of the thresholds perPart * taskW of the first m (task, cycle) pairs
ThrSum(p, m) ==
    IF m = 0 THEN 0 ELSE Thr(p, (m - 1) % p.count) + ThrSum(p, m - 1)

\* the carry, which starts at -0.5, reaches the threshold of the m-th
\* (task, cycle) pair when the weight of index i is added, and not before
\* (a rounded comparison of equal values can go either way)
ReachedAt(p, m, i) ==
    /\ InitW(p) + CumW(p, i) >= ThrSum(p, m)
    /\ InitW(p) + CumW(p, i - 1) <= ThrSum(p, m)

\* the slices that were emitted inside the loop (all but the tail)
LoopSlices == IF prRun.status = "done" THEN 1..(Len(ba) - 1) ELSE 1..Len(ba)

\* C24: the index i whose weight makes the carry reach the threshold of
\* task t is not part of t's slice: the slice emitted for t is
\* [slice_from, i) and i is the first index of the next slice.
C24_CrossingExcluded ==
    prRun.status # "none" =>
        LET p == RunCtx(bpd, prRun.count, prRun.size) IN
        \A j \in LoopSlices :
            /\ ba[j].from < ba[j].to /\ ba[j].to < prRun.size
            /\ \E m \in 1..(prRun.count * bpd.cycles) :
                  /\ (m - 1) % prRun.count = ba[j].task
                  /\ ReachedAt(p, m, ba[j].to)
            /\ j < Len(ba) => ba[j + 1].from = ba[j].to

\* index weights [1, 0, 1] over two tasks: the carry reaches the first
\* threshold at index 2, which starts the slice of task 1
C24_Witness ==
    /\ prRun.status = "done" /\ prRun.size = 3 /\ prRun.count = 2
    /\ bpd.cycles = 1 /\ bpd.getTaskW = NoFunc
    /\ bpd.getIdxW = <<1, 0, 1>>
    /\ ba = <<[task |-> 0, from |-> 0, to |-> 2],
              [task |-> 1, from |-> 2, to |-> 3]>>

\* ------------------------------------------------------------------------
\* the interval map across a transition of the sparse layout
\* ------------------------------------------------------------------------

\* C25: reuse gives the new sparse layout the old layout's interval map in
\* exactly two cases: reuse succeeds and the new layout is external
\* (count # localLength), or reuse fails while the local lengths are equal;
\* otherwise the new layout's map is not touched.  After an inheritance
\* every locally owned index has the same offset in the new layout as in
\* the old one.
C25_MapInheritance ==
    [][(lv.variant = "sparse" /\ res'.op = "reuse") =>
          LET inherits ==
                  \/ res'.ret /\ lv'.count # lv'.localLength
                  \/ ~res'.ret /\ lv'.localLength = lv.localLength
          IN  /\ inherits =>
                    /\ lv'.globalToLocalMap = lv.globalToLocalMap
                    /\ \A g \in 0..MaxIdx :
                          Owned(lv.globalToLocalMap, g) =>
                              LET a == offset_vector_sparse(lv, g)
                                  b == offset_vector_sparse(lv', g)
                              IN  a.kind = b.kind /\ a.value = b.value
                                                  /\ a.ext = b.ext
              /\ ~inherits => lv'.globalToLocalMap = NoMap]_vars

\* a transition to an external layout has just inherited a map of two
\* intervals
C25_Witness ==
    /\ lv.variant = "sparse" /\ res.op = "reuse" /\ res.ret
    /\ lv.count # lv.localLength
    /\ lv.globalToLocalMap.size = 2
    /\ lv.localLength = 2

\* C26 as stated: with unit weights the closing assertion holds for every
\* N >= 1, k >= 1 and cycles >= 1, also for N < k * cycles: the run
\* completes and the tail slice [slice_from, N) goes to task k - 1.
C26_AsStated ==
    (prRun.status # "none" /\ UnitWeights) =>
        /\ prRun.status = "done"
        /\ Len(ba) >= 1
        /\ ba[Len(ba)].task = prRun.count - 1
        /\ ba[Len(ba)].to = prRun.size

\* ------------------------------------------------------------------------
\* the buffer of a container with the sparse layout
\* ------------------------------------------------------------------------

\* C27: across any sequence of transitions of a container with the sparse
\* layout, allocatedRangeCount of the active layout is the capacity of the
\* buffer in use, and the layout's count never exceeds that capacity.
C27_ArcIsCapacity ==
    lv.variant = "sparse" =>
        /\ lv.allocatedRangeCount = dc.capacity
        /\ lv.count <= dc.capacity

\* a transition has reused a buffer that is larger than the new layout
C27_Witness ==
    /\ lv.variant = "sparse" /\ res.op = "reuse" /\ res.ret
    /\ lv.count < dc.capacity
    /\ res.newArc < res.oldArc

\* ------------------------------------------------------------------------
\* offset queries for owned indices
\* ------------------------------------------------------------------------

\* every index of [from, to) is owned by the layout l
AllOwned(l, from, to) ==
    \A g \in from..(to - 1) : Owned(l.globalToLocalMap, g)

\* in the sparse layout an offset query for a locally owned index leaves
\* the external cursor (and the rest of the layout) unchanged and returns
\* the offset the interval map fixes for the index
OwnedQueriesPure ==
    [][(lv.variant = "sparse" /\ res'.op = "offset"
          /\ Owned(lv.globalToLocalMap, res'.g)) =>
            /\ lv' = lv
            /\ ~res'.ext
            /\ res'.kind = "ok" =>
                 res'.value = OwnedOffset(lv.globalToLocalMap, res'.g)]_vars

\* C28 as stated: offset queries for owned indices do not change the
\* layout, hence pack, unpack and copy over a range made only of owned
\* indices leave the state of the sparse layouts unchanged.
C28_AsStated ==
    [][/\ (mp.variant = "sparse" /\ res'.op = "pack"
             /\ AllOwned(mp.src.layout, mp.idx, mp'.idx)) =>
            mp'.src.layout = mp.src.layout
       /\ (mp.variant = "sparse" /\ res'.op = "unpack"
             /\ AllOwned(mp.dst.layout, mp.uidx, mp'.uidx)) =>
            mp'.dst.layout = mp.dst.layout
       /\ (mp.variant = "sparse" /\ res'.op = "copy"
             /\ AllOwned(mp.src.layout, mp.range.from, mp.range.to)
             /\ AllOwned(mp.dst.layout, mp.range.from, mp.range.to)) =>
            /\ mp'.src.layout = mp.src.layout
            /\ mp'.dst.layout = mp.dst.layout]_vars

\* ------------------------------------------------------------------------
\* section of the sparse layout
\* ------------------------------------------------------------------------

\* C29 as stated: section(idx) of the sparse layout is 0 if and only if idx
\* lies in one of the owned intervals; it is -1 in a gap between two
\* intervals and at upper_bound.
C29_AsStated ==
    (lv.variant = "sparse" /\ IsMap(lv.globalToLocalMap)) =>
        \A g \in QueryIdx :
            section_vector_sparse(lv, g) = 0 <=> Owned(lv.globalToLocalMap, g)

\* ------------------------------------------------------------------------
\* the cycle count of the block partitioner
\* ------------------------------------------------------------------------

\* C30 as stated: after laik_set_cycle_count(pr, c) for any integer c the
\* cycle count is in [1, 10]; a value outside that range is replaced by 1.
C30_AsStated ==
    res.op = "set_cycle_count" =>
        /\ bpd.cycles >= 1 /\ bpd.cycles <= 10
        /\ bpd.cycles = IF res.cycles >= 1 /\ res.cycles <= 10
                        THEN res.cycles ELSE 1

====
